---- MODULE Spec2Model ----
(***************************************************************************)
(* A model of tg-takeout-parser.py: the record extractor                   *)
(* (load_needed_chats_data), the text normalizer (normalize_text_value),   *)
(* the table builder (gen_messages_dataframe) and the aggregator           *)
(* (gen_stats_dataframe, gen_sent_received_dataframe).                     *)
(*                                                                         *)
(* Encoding of the Python values:                                          *)
(*   - a dict is a function whose DOMAIN is the dict's keys; a DataFrame   *)
(*     row is a function from column names to cell values, and a cell that *)
(*     is NaN / <NA> / None is a column that is not in the row's DOMAIN;   *)
(*   - a message's raw "text" is [str |-> s] (a Python str) or             *)
(*     [list |-> <<e1, ..., en>>] (a Python list), an element being        *)
(*     [str |-> s] or a span dict [type |-> t, text |-> s];                *)
(*   - a raw "duration_seconds" is [int |-> n] or [str |-> s];             *)
(*   - a raw "from_id" is a sequence of one-character strings, so that     *)
(*     str.replace and the integer parse work on characters;               *)
(*   - a date is [y |-> year, m |-> month, d |-> day].                     *)
(***************************************************************************)
EXTENDS Integers, Sequences, FiniteSets, TLC

VARIABLES
    pc,             \* "start" before the call under study, then the call's name
    archive,        \* the json file's chats.list, in file order
    chats_list,     \* load_needed_chats_data's result / gen_messages_dataframe's input
    value,          \* normalize_text_value's argument
    replace_links,  \* normalize_text_value's flag
    normalized,     \* normalize_text_value's result
    chat_types,     \* gen_messages_dataframe's chat_types
    df,             \* gen_messages_dataframe's outcome: the rows, or the exception
    msg_df,         \* the flat table the aggregator is given
    args,           \* the arguments of the aggregator call made
    stat_df,        \* gen_stats_dataframe's result
    sent_df,        \* gen_sent_received_dataframe's sent side
    received_df,    \* gen_sent_received_dataframe's received side
    merged_df       \* gen_sent_received_dataframe's result

vars == <<pc, archive, chats_list, value, replace_links, normalized, chat_types,
          df, msg_df, args, stat_df, sent_df, received_df, merged_df>>

(***************************************************************************)
(* Bounds of the model.                                                    *)
(***************************************************************************)
MaxChats == 2       \* chats in an archive
MaxElems == 2       \* elements of a list-valued text
MaxRows == 3        \* rows of a flat table given to the aggregator

(***************************************************************************)
(* Module-level constants of the script.                                   *)
(***************************************************************************)
CHAT_TYPES == {"private_group", "personal_chat"}

MESSAGE_RECORDS ==
    [id |-> "int", date |-> "datetime64[ns]", type |-> "category",
     from_id |-> "category", text |-> "string", forwarded_from |-> "category",
     media_type |-> "category", duration_seconds |-> "Int64", file |-> "category"]

CHAT_RECORDS == [id |-> "category", name |-> "category", type |-> "category"]

CHAT_RECORDS_PREFIX == "chat_"

LINK_PLACEHOLDER == "<<link>>"

(***************************************************************************)
(* Helpers for the encoding.                                               *)
(***************************************************************************)
\* {k: v for k, v in d.items() if k in keys}
DictFilter(d, keys) == [k \in (DOMAIN d) \cap keys |-> d[k]]

IsStr(v) == "str" \in DOMAIN v
IsList(v) == "list" \in DOMAIN v

\* The characters of "user".
USER_PREFIX == <<"u", "s", "e", "r">>

(***************************************************************************)
(* load_needed_chats_data                                                  *)
(***************************************************************************)
filter_message(m) == DictFilter(m, DOMAIN MESSAGE_RECORDS)

filter_chat(chat) ==
    DictFilter(chat, DOMAIN CHAT_RECORDS) @@
    [messages |-> [j \in 1..Len(chat["messages"]) |-> filter_message(chat["messages"][j])]]

\* A variant that rejects the channels instead of accepting CHAT_TYPES.
accepted_chat_denylist(o) == o["type"] # "public_channel"

accepted_chat(o) == o["type"] \in CHAT_TYPES

load_needed_chats_data(objects) ==
    LET chats == SelectSeq(objects, accepted_chat)
    IN  [i \in 1..Len(chats) |-> filter_chat(chats[i])]

(***************************************************************************)
(* normalize_text_value                                                    *)
(***************************************************************************)
RECURSIVE str_join(_, _)
\* sep.join(parts)
str_join(sep, parts) ==
    IF Len(parts) = 0 THEN ""
    ELSE IF Len(parts) = 1 THEN parts[1]
    ELSE parts[1] \o sep \o str_join(sep, Tail(parts))

\* A variant that replaces links whatever the flag says.
elem_f_always(e, replace) ==
    IF e["type"] = "link" THEN LINK_PLACEHOLDER ELSE e["text"]

elem_f(e, replace) ==
    IF replace /\ e["type"] = "link" THEN LINK_PLACEHOLDER ELSE e["text"]

convert_elem(t, replace) == IF IsStr(t) THEN t["str"] ELSE elem_f(t, replace)

normalize_text_value(v, replace) ==
    IF IsList(v)
    THEN str_join(" ", [i \in 1..Len(v["list"]) |-> convert_elem(v["list"][i], replace)])
    ELSE v["str"]

(***************************************************************************)
(* gen_messages_dataframe                                                  *)
(***************************************************************************)
\* One chat field as json_normalize's meta column: meta_prefix + field, left
\* NaN (errors="ignore") when the chat has no such key.
meta_column(chat, k) ==
    IF k \in DOMAIN chat THEN (CHAT_RECORDS_PREFIX \o k) :> chat[k] ELSE <<>>

\* A variant without meta_prefix: the chat's fields under their own names.
chat_meta_unprefixed(chat) == DictFilter(chat, {"name", "id", "type"})

chat_meta(chat) ==
    meta_column(chat, "name") @@ meta_column(chat, "id") @@ meta_column(chat, "type")

RECURSIVE json_normalize(_)
\* One row per element of each chat's "messages", in order, with the chat's meta.
json_normalize(chats) ==
    IF Len(chats) = 0 THEN <<>>
    ELSE LET chat == Head(chats)
         IN  [j \in 1..Len(chat["messages"]) |-> chat["messages"][j] @@ chat_meta(chat)]
             \o json_normalize(Tail(chats))

\* list(columns_types.keys())
COLUMNS == {CHAT_RECORDS_PREFIX \o k : k \in DOMAIN CHAT_RECORDS} \cup DOMAIN MESSAGE_RECORDS

reindex(rows) == [i \in 1..Len(rows) |-> DictFilter(rows[i], COLUMNS)]

\* A variant that tests against CHAT_TYPES and not against the argument.
chat_type_kept_default(r, types) == "chat_type" \in DOMAIN r /\ r["chat_type"] \in CHAT_TYPES

\* df[df['chat_type'].isin(chat_types)]
chat_type_kept(r, types) == "chat_type" \in DOMAIN r /\ r["chat_type"] \in types

\* df[df['type'] == 'message']
is_message(r) == "type" \in DOMAIN r /\ r["type"] = "message"

filter_rows(rows, types) ==
    LET by_chat(r) == chat_type_kept(r, types)
    IN  SelectSeq(SelectSeq(rows, by_chat), is_message)

\* df['text'].apply(normalize_text_value): replace_links keeps its default, and
\* a NaN text is not a list and comes back as it is.
apply_normalize(r) ==
    IF "text" \in DOMAIN r
    THEN [r EXCEPT !["text"] = normalize_text_value(@, TRUE)]
    ELSE r

RECURSIVE str_replace(_, _, _)
\* s.replace(old, new): every occurrence, left to right.
str_replace(s, old, new) ==
    IF Len(s) < Len(old) THEN s
    ELSE IF SubSeq(s, 1, Len(old)) = old
         THEN new \o str_replace(SubSeq(s, Len(old) + 1, Len(s)), old, new)
         ELSE <<Head(s)>> \o str_replace(Tail(s), old, new)

\* A variant that removes "user" at the start of the token only.
strip_user_prefix_only(token) ==
    IF Len(token) >= Len(USER_PREFIX) /\ SubSeq(token, 1, Len(USER_PREFIX)) = USER_PREFIX
    THEN SubSeq(token, Len(USER_PREFIX) + 1, Len(token))
    ELSE token

strip_user(token) == str_replace(token, USER_PREFIX, <<>>)

DigitValue ==
    ("0" :> 0) @@ ("1" :> 1) @@ ("2" :> 2) @@ ("3" :> 3) @@ ("4" :> 4) @@
    ("5" :> 5) @@ ("6" :> 6) @@ ("7" :> 7) @@ ("8" :> 8) @@ ("9" :> 9)

\* Whether astype('uint64') accepts the string: decimal digits only.
is_uint(s) == Len(s) > 0 /\ \A i \in 1..Len(s) : s[i] \in DOMAIN DigitValue

RECURSIVE to_uint(_)
to_uint(s) ==
    IF Len(s) = 0 THEN 0
    ELSE 10 * to_uint(SubSeq(s, 1, Len(s) - 1)) + DigitValue[s[Len(s)]]

\* Whether the two from_id statements accept the row: a NaN stays NaN under
\* .str.replace and cannot be cast.
sender_ok(r) == "from_id" \in DOMAIN r /\ is_uint(strip_user(r["from_id"]))

convert_sender(r) == [r EXCEPT !["from_id"] = to_uint(strip_user(@))]

\* Whether df.astype(columns_types) accepts the row: Int64 takes an integer or
\* NaN, not a string.
coercible(r) == "duration_seconds" \in DOMAIN r => "int" \in DOMAIN r["duration_seconds"]

coerce(r) ==
    IF "duration_seconds" \in DOMAIN r
    THEN [r EXCEPT !["duration_seconds"] = @["int"]]
    ELSE r

Raised(e) == [ok |-> FALSE, error |-> e]
Returned(rows) == [ok |-> TRUE, rows |-> rows]

\* A variant that leaves out the rows astype cannot coerce and goes on.
gen_messages_dataframe_dropping(chats, types) ==
    LET kept == filter_rows(reindex(json_normalize(chats)), types)
        texted == [i \in 1..Len(kept) |-> apply_normalize(kept[i])]
        good == SelectSeq(texted, coercible)
    IN  IF \E i \in 1..Len(good) : ~sender_ok(good[i])
        THEN {Raised("ValueError")}
        ELSE {Returned([i \in 1..Len(good) |-> coerce(convert_sender(good[i]))])}

\* The outcomes of gen_messages_dataframe(chats, chat_types=types). When no
\* message of the input carries from_id, the column reindex makes is all NaN and
\* .str refuses a float column; pandas decides the dtype of an all-NaN column,
\* so both the refusal and the continuation are kept.
gen_messages_dataframe(chats, types) ==
    LET exploded == json_normalize(chats)
        kept == filter_rows(reindex(exploded), types)
        texted == [i \in 1..Len(kept) |-> apply_normalize(kept[i])]
        no_sender_column == \A i \in 1..Len(exploded) : "from_id" \notin DOMAIN exploded[i]
        rest ==
            IF \E i \in 1..Len(texted) : ~sender_ok(texted[i])
            THEN Raised("ValueError")
            ELSE IF \E i \in 1..Len(texted) : ~coercible(texted[i])
            THEN Raised("TypeError")
            ELSE Returned([i \in 1..Len(texted) |-> coerce(convert_sender(texted[i]))])
    IN  IF no_sender_column THEN {Raised("AttributeError"), rest} ELSE {rest}

(***************************************************************************)
(* gen_stats_dataframe and gen_sent_received_dataframe                     *)
(***************************************************************************)
\* A variant that buckets by the year alone.
to_period_year(date, freq) ==
    IF freq = "Q"
    THEN [freq |-> "Q", y |-> date["y"], q |-> 1]
    ELSE [freq |-> "M", y |-> date["y"], m |-> 1]

\* date.dt.to_period(freq): the calendar month or quarter the date falls in.
to_period(date, freq) ==
    IF freq = "Q"
    THEN [freq |-> "Q", y |-> date["y"], q |-> ((date["m"] - 1) \div 3) + 1]
    ELSE [freq |-> "M", y |-> date["y"], m |-> date["m"]]

isna(r, col) == col \notin DOMAIN r

\* 'nunique': the distinct values of the column, NaN left out.
agg_nunique(rows, col) ==
    Cardinality({rows[i][col] : i \in {j \in 1..Len(rows) : ~isna(rows[j], col)}})

\* 'count': the cells of the column that are not NaN.
agg_count(rows, col) == Cardinality({i \in 1..Len(rows) : ~isna(rows[i], col)})

RECURSIVE agg_sum_len(_, _)
\* lambda x: np.sum(x.str.len()): <NA> lengths are skipped.
agg_sum_len(rows, col) ==
    IF Len(rows) = 0 THEN 0
    ELSE (IF isna(Head(rows), col) THEN 0 ELSE Len(Head(rows)[col]))
         + agg_sum_len(Tail(rows), col)

RECURSIVE agg_sum(_, _)
\* 'sum': <NA> cells are skipped.
agg_sum(rows, col) ==
    IF Len(rows) = 0 THEN 0
    ELSE (IF isna(Head(rows), col) THEN 0 ELSE Head(rows)[col]) + agg_sum(Tail(rows), col)

\* .agg(STAT_FUNCTIONS) of one group, under STAT_COLUMNS_NAMES.
STAT_FUNCTIONS(group) ==
    [chats |-> agg_nunique(group, CHAT_RECORDS_PREFIX \o "id"),
     msg |-> agg_count(group, "id"),
     chr |-> agg_sum_len(group, "text"),
     media_sec |-> agg_sum(group, "duration_seconds")]

\* A variant that keeps the forwarded rows.
drop_forwarded_none(rows) == rows

\* stat_df[stat_df['forwarded_from'].isna()]
drop_forwarded(rows) ==
    LET not_forwarded(r) == isna(r, "forwarded_from")
    IN  SelectSeq(rows, not_forwarded)

\* The bucket table: a function from the periods present to their aggregates.
gen_stats_dataframe(rows, exclude_forwarded, freq) ==
    LET stat_df0 == IF exclude_forwarded THEN drop_forwarded(rows) ELSE rows
        dated == {i \in 1..Len(stat_df0) : ~isna(stat_df0[i], "date")}
        periods == {to_period(stat_df0[i]["date"], freq) : i \in dated}
        in_period(p) ==
            LET same(r) == ~isna(r, "date") /\ to_period(r["date"], freq) = p
            IN  SelectSeq(stat_df0, same)
    IN  [p \in periods |-> STAT_FUNCTIONS(in_period(p))]

\* msg_df[msg_df['from_id'] == my_id]
sent_rows(rows, my_id) ==
    LET mine(r) == ~isna(r, "from_id") /\ r["from_id"] = my_id
    IN  SelectSeq(rows, mine)

\* msg_df[msg_df['from_id'] != my_id]
received_rows(rows, my_id) ==
    LET others(r) == isna(r, "from_id") \/ r["from_id"] # my_id
    IN  SelectSeq(rows, others)

\* A variant of the sent side without exclude_forwarded.
sent_stats_with_forwarded(rows, my_id) ==
    gen_stats_dataframe(sent_rows(rows, my_id), FALSE, "M")

sent_stats(rows, my_id) == gen_stats_dataframe(sent_rows(rows, my_id), TRUE, "M")

received_stats(rows, my_id) == gen_stats_dataframe(received_rows(rows, my_id), FALSE, "M")

\* The periods DataFrame.merge keeps: how='inner' is the default.
merge_keys(left, right) == (DOMAIN left) \cap (DOMAIN right)

\* A variant with how='outer': every period of either side, the missing side NaN.
merge_outer(left, right) ==
    [p \in (DOMAIN left) \cup (DOMAIN right) |->
        (IF p \in DOMAIN left
         THEN [chats_sent |-> left[p]["chats"], msg_sent |-> left[p]["msg"],
               chr_sent |-> left[p]["chr"], media_sec_sent |-> left[p]["media_sec"]]
         ELSE <<>>) @@
        (IF p \in DOMAIN right
         THEN [chats_received |-> right[p]["chats"], msg_received |-> right[p]["msg"],
               chr_received |-> right[p]["chr"],
               media_sec_received |-> right[p]["media_sec"]]
         ELSE <<>>)]

\* sent_df.merge(received_df, on='date', suffixes=('_sent', '_received'))
merge(left, right) ==
    [p \in merge_keys(left, right) |->
        [chats_sent |-> left[p]["chats"], msg_sent |-> left[p]["msg"],
         chr_sent |-> left[p]["chr"], media_sec_sent |-> left[p]["media_sec"],
         chats_received |-> right[p]["chats"], msg_received |-> right[p]["msg"],
         chr_received |-> right[p]["chr"], media_sec_received |-> right[p]["media_sec"]]]

gen_sent_received_dataframe(rows, my_id) ==
    merge(sent_stats(rows, my_id), received_stats(rows, my_id))

(***************************************************************************)
(* Inputs.                                                                 *)
(***************************************************************************)
\* Every contiguous run of s, the empty one included.
Runs(s) == {SubSeq(s, i, j) : i \in 1..(Len(s) + 1), j \in 0..Len(s)}

D1 == [y |-> 2021, m |-> 1, d |-> 5]
D2 == [y |-> 2021, m |-> 1, d |-> 20]
D3 == [y |-> 2021, m |-> 2, d |-> 3]
D4 == [y |-> 2021, m |-> 4, d |-> 1]

user1 == USER_PREFIX \o <<"1">>
user2 == USER_PREFIX \o <<"2">>

ElemTexts == {"a", "b", "http://x"}
SpanTypes == {"link", "bold"}
TextElems ==
    {[str |-> s] : s \in ElemTexts} \cup
    {[type |-> t, text |-> s] : t \in SpanTypes, s \in ElemTexts}
TextValues ==
    {[str |-> s] : s \in ElemTexts \cup {""}} \cup
    {[list |-> l] : l \in UNION {[1..k -> TextElems] : k \in 0..MaxElems}}

\* One thread of an export: a text message, a forwarded message with a
\* list-valued text, a service record and a voice message, each with the keys
\* the export gives it (from, actor, action, edited are not in MESSAGE_RECORDS).
SampleThread ==
    << [id |-> 1, type |-> "message", date |-> D1, from |-> "Alice",
        from_id |-> user2, text |-> [str |-> "hi"]],
       [id |-> 2, type |-> "message", date |-> D2, edited |-> D3, from |-> "Me",
        from_id |-> user1, forwarded_from |-> "Bob",
        text |-> [list |-> <<[str |-> "see"], [type |-> "link", text |-> "http://x"]>>]],
       [id |-> 3, type |-> "service", date |-> D2, actor |-> "Alice",
        actor_id |-> user2, action |-> "phone_call", text |-> [str |-> ""]],
       [id |-> 4, type |-> "message", date |-> D3, from |-> "Me", from_id |-> user1,
        media_type |-> "voice_message", file |-> "voice.ogg",
        duration_seconds |-> [int |-> 5], text |-> [str |-> ""]] >>

\* The chats of an export: saved_messages carries no name, and about is a key
\* that is not in CHAT_RECORDS.
ChatHeaders ==
    { [id |-> 10, name |-> "Alice", type |-> "personal_chat"],
      [id |-> 20, name |-> "Family", type |-> "private_group", about |-> "x"],
      [id |-> 30, type |-> "saved_messages"],
      [id |-> 40, name |-> "News", type |-> "public_channel"] }

ArchiveChats == {h @@ [messages |-> ms] : h \in ChatHeaders, ms \in Runs(SampleThread)}

\* A thread for the table builder: senders with the prefix, without it
\* ("12345"), with it inside ("7user3") and not numeric ("channel1"), a service
\* record without from_id, and durations that are numbers and one that is not.
TableThread ==
    << [id |-> 1, type |-> "message", date |-> D1, from |-> "Alice",
        from_id |-> user2, text |-> [str |-> "hi"]],
       [id |-> 2, type |-> "message", date |-> D2, from |-> "Me",
        from_id |-> USER_PREFIX \o <<"1", "2", "3", "4", "5">>, forwarded_from |-> "Bob",
        text |-> [list |-> <<[str |-> "a"], [type |-> "bold", text |-> "b"]>>]],
       [id |-> 3, type |-> "service", date |-> D2, actor |-> "Alice",
        actor_id |-> user2, action |-> "phone_call", text |-> [str |-> ""]],
       [id |-> 4, type |-> "message", date |-> D3, from_id |-> <<"1", "2", "3", "4", "5">>,
        media_type |-> "voice_message", file |-> "voice.ogg",
        duration_seconds |-> [int |-> 5], text |-> [str |-> ""]],
       [id |-> 5, type |-> "message", date |-> D3,
        from_id |-> <<"c", "h", "a", "n", "n", "e", "l", "1">>, text |-> [str |-> "post"]],
       [id |-> 6, type |-> "message", date |-> D4, from_id |-> user2,
        media_type |-> "video_file", duration_seconds |-> [str |-> "x"],
        text |-> [str |-> ""]],
       [id |-> 7, type |-> "message", date |-> D4,
        from_id |-> <<"7">> \o USER_PREFIX \o <<"3">>, text |-> [str |-> "b"]] >>

TableHeaders ==
    { [id |-> 10, name |-> "Alice", type |-> "personal_chat"],
      [id |-> 20, name |-> "Family", type |-> "private_group"],
      [id |-> 40, name |-> "News", type |-> "public_channel"] }

\* A list of chats with distinct headers, each with a run of the thread.
distinct_headers(hs) == \A a, b \in 1..Len(hs) : a # b => hs[a] # hs[b]

chat_list(hs, ms) == [i \in 1..Len(hs) |-> hs[i] @@ [messages |-> ms[i]]]

\* chat_types=None stands for CHAT_TYPES.
ChatTypeArgs == {CHAT_TYPES, {"personal_chat"}}

\* The rows of a flat table: the sender, the forwarded-from marker, the date and
\* the kind of message (a text, or a voice message with no text and a
\* duration); the voice messages are those of a second chat.
RowSenders == {1, 2}
RowDates == {D1, D2, D3}
RowKinds ==
    { [chat_id |-> 10, text |-> "ab"],
      [chat_id |-> 20, text |-> "", duration_seconds |-> 5] }
RowMarkers == {<<>>, [forwarded_from |-> "Bob"]}

FlatRows ==
    {[type |-> "message", from_id |-> s, date |-> d] @@ k @@ f :
        s \in RowSenders, d \in RowDates, k \in RowKinds, f \in RowMarkers}

\* The i-th message of a table has id i.
flat_table(t) == [i \in 1..Len(t) |-> [id |-> i] @@ t[i]]

OwnerIds == {1, 2}
Freqs == {"M", "Q"}

(***************************************************************************)
(* Initial values of the variables a specification does not use.           *)
(***************************************************************************)
NoExtract == archive = <<>> /\ chats_list = <<>>
NoNormalize == value = [str |-> ""] /\ replace_links = TRUE /\ normalized = ""
NoTable == chat_types = {} /\ df = [ok |-> TRUE, rows |-> <<>>]
NoStats ==
    /\ msg_df = <<>>
    /\ args = <<>>
    /\ stat_df = <<>>
    /\ sent_df = <<>>
    /\ received_df = <<>>
    /\ merged_df = <<>>

(***************************************************************************)
(* The record extractor: one call of load_needed_chats_data on an archive. *)
(***************************************************************************)
InitExtract ==
    /\ pc = "start"
    /\ \E k \in 0..MaxChats : archive \in [1..k -> ArchiveChats]
    /\ chats_list = <<>>
    /\ NoNormalize /\ NoTable /\ NoStats

LoadNeededChatsData ==
    /\ pc = "start"
    /\ pc' = "loaded"
    /\ chats_list' = load_needed_chats_data(archive)
    /\ UNCHANGED <<archive, value, replace_links, normalized, chat_types, df, msg_df,
                   args, stat_df, sent_df, received_df, merged_df>>

SpecExtract == InitExtract /\ [][LoadNeededChatsData]_vars

(***************************************************************************)
(* The text normalizer: one call of normalize_text_value.                  *)
(***************************************************************************)
InitNormalize ==
    /\ pc = "start"
    /\ value \in TextValues
    /\ replace_links \in BOOLEAN
    /\ normalized = ""
    /\ NoExtract /\ NoTable /\ NoStats

NormalizeTextValue ==
    /\ pc = "start"
    /\ pc' = "normalized"
    /\ normalized' = normalize_text_value(value, replace_links)
    /\ UNCHANGED <<archive, chats_list, value, replace_links, chat_types, df, msg_df,
                   args, stat_df, sent_df, received_df, merged_df>>

SpecNormalize == InitNormalize /\ [][NormalizeTextValue]_vars

(***************************************************************************)
(* The table builder: one call of gen_messages_dataframe.                  *)
(***************************************************************************)
InitTable ==
    /\ pc = "start"
    /\ archive = <<>>
    /\ \E k \in 0..MaxChats :
        \E hs \in [1..k -> TableHeaders], ms \in [1..k -> Runs(TableThread)] :
            /\ distinct_headers(hs)
            /\ chats_list = chat_list(hs, ms)
    /\ chat_types \in ChatTypeArgs
    /\ df = Returned(<<>>)
    /\ NoNormalize /\ NoStats

GenMessagesDataframe ==
    /\ pc = "start"
    /\ pc' = "built"
    /\ df' \in gen_messages_dataframe(chats_list, chat_types)
    /\ UNCHANGED <<archive, chats_list, value, replace_links, normalized, chat_types,
                   msg_df, args, stat_df, sent_df, received_df, merged_df>>

SpecTable == InitTable /\ [][GenMessagesDataframe]_vars

(***************************************************************************)
(* The aggregator: one call of gen_stats_dataframe or of                   *)
(* gen_sent_received_dataframe on a flat table.                            *)
(***************************************************************************)
InitStats ==
    /\ pc = "start"
    /\ \E n \in 0..MaxRows : \E t \in [1..n -> FlatRows] : msg_df = flat_table(t)
    /\ args = <<>>
    /\ stat_df = <<>>
    /\ sent_df = <<>>
    /\ received_df = <<>>
    /\ merged_df = <<>>
    /\ NoExtract /\ NoNormalize /\ NoTable

GenStatsDataframe ==
    /\ pc = "start"
    /\ \E exclude_forwarded \in BOOLEAN, freq \in Freqs :
        /\ args' = [exclude_forwarded |-> exclude_forwarded, freq |-> freq]
        /\ stat_df' = gen_stats_dataframe(msg_df, exclude_forwarded, freq)
    /\ pc' = "stats"
    /\ UNCHANGED <<archive, chats_list, value, replace_links, normalized, chat_types,
                   df, msg_df, sent_df, received_df, merged_df>>

GenSentReceivedDataframe ==
    /\ pc = "start"
    /\ \E my_id \in OwnerIds :
        /\ args' = [my_id |-> my_id]
        /\ sent_df' = sent_stats(msg_df, my_id)
        /\ received_df' = received_stats(msg_df, my_id)
        /\ merged_df' = gen_sent_received_dataframe(msg_df, my_id)
    /\ pc' = "merged"
    /\ UNCHANGED <<archive, chats_list, value, replace_links, normalized, chat_types,
                   df, msg_df, stat_df>>

NextStats == GenStatsDataframe \/ GenSentReceivedDataframe

SpecStats == InitStats /\ [][NextStats]_vars

(***************************************************************************)
(* Properties of the record extractor.                                     *)
(***************************************************************************)
\* The positions of the archive's chats of an accepted type.
AcceptedAt == {i \in 1..Len(archive) : archive[i]["type"] \in {"private_group", "personal_chat"}}

\* The place in the result of the accepted chat at position i of the archive.
EntryOf(i) == Cardinality({j \in AcceptedAt : j <= i})

\* C5: load_needed_chats_data returns, in archive order, one entry per chat of an
\* accepted type and none for any other chat; an entry keeps the chat's id, name
\* and type and nothing else but a messages list, which has one element per
\* original message, in order, each keeping exactly its allow-listed fields.
C5_ExtractKeepsAcceptedChats ==
    pc = "loaded" =>
        /\ Len(chats_list) = Cardinality(AcceptedAt)
        /\ \A i \in AcceptedAt :
            LET c == chats_list[EntryOf(i)]
                o == archive[i]
            IN  /\ DOMAIN c = ((DOMAIN o) \cap {"id", "name", "type"}) \cup {"messages"}
                /\ \A k \in (DOMAIN c) \ {"messages"} : c[k] = o[k]
                /\ Len(c["messages"]) = Len(o["messages"])
                /\ \A j \in 1..Len(o["messages"]) :
                    LET m == c["messages"][j]
                        om == o["messages"][j]
                    IN  /\ DOMAIN m = (DOMAIN om) \cap DOMAIN MESSAGE_RECORDS
                        /\ \A k \in DOMAIN m : m[k] = om[k]

\* A rejected chat with messages before an accepted chat with two messages that
\* carry keys outside the allow-list: one entry comes back.
C5_Witness ==
    /\ pc = "loaded"
    /\ Len(archive) = 2
    /\ archive[1]["type"] = "public_channel"
    /\ Len(archive[1]["messages"]) = 2
    /\ archive[2]["type"] = "private_group"
    /\ Len(archive[2]["messages"]) = 2
    /\ "from" \in DOMAIN archive[2]["messages"][1]
    /\ Len(chats_list) = 1
    /\ chats_list[1]["id"] = 20

(***************************************************************************)
(* Properties of the text normalizer.                                      *)
(***************************************************************************)
\* The conversion of one element, as the contract words it.
ClaimedElem(e, replace) ==
    IF "str" \in DOMAIN e THEN e["str"]
    ELSE IF replace /\ e["type"] = "link" THEN "<<link>>"
    ELSE e["text"]

RECURSIVE ClaimedText(_, _, _)
\* The first n elements of l, converted, with one space between neighbours.
ClaimedText(l, n, replace) ==
    IF n = 0 THEN ""
    ELSE IF n = 1 THEN ClaimedElem(l[1], replace)
    ELSE ClaimedText(l, n - 1, replace) \o " " \o ClaimedElem(l[n], replace)

\* C4: normalize_text_value returns a plain string unchanged, and a sequence as
\* its converted elements joined by single spaces: a string element is itself,
\* a link span is the placeholder when replacement is enabled, any other span
\* (and every span when it is disabled) is its text.
C4_NormalizeText ==
    pc = "normalized" =>
        /\ IsStr(value) => normalized = value["str"]
        /\ IsList(value) =>
            normalized = ClaimedText(value["list"], Len(value["list"]), replace_links)
        /\ value = [list |-> <<[str |-> "a"], [type |-> "bold", text |-> "b"]>>]
            => normalized = "a b"
        /\ (value = [list |-> <<[type |-> "link", text |-> "http://x"]>>] /\ replace_links)
            => normalized = "<<link>>"
        /\ (value = [list |-> <<[type |-> "link", text |-> "http://x"]>>] /\ ~replace_links)
            => normalized = "http://x"

\* A string element followed by a link span, with replacement enabled.
C4_Witness ==
    /\ pc = "normalized"
    /\ replace_links
    /\ value = [list |-> <<[str |-> "a"], [type |-> "link", text |-> "http://x"]>>]
    /\ normalized = "a <<link>>"

(***************************************************************************)
(* Properties of the table builder.                                        *)
(***************************************************************************)
\* The input messages, as <<chat position, message position>>.
InputMessages ==
    UNION {{<<i, j>> : j \in 1..Len(chats_list[i]["messages"])} : i \in 1..Len(chats_list)}

ChatAt(p) == chats_list[p[1]]
MessageAt(p) == chats_list[p[1]]["messages"][p[2]]

\* The input messages of kind "message" whose chat is of an accepted type.
Retained ==
    {p \in InputMessages :
        MessageAt(p)["type"] = "message" /\ ChatAt(p)["type"] \in chat_types}

\* The row of a retained message: rows keep the order of the input.
RowOf(p) ==
    Cardinality({q \in Retained : q[1] < p[1] \/ (q[1] = p[1] /\ q[2] <= p[2])})

\* C3: a row's chat_id, chat_name and chat_type are the id, name and type of the
\* chat whose messages list held the message, its id and type are the
\* message's own, and there is no row beyond those of the chats' messages.
C3_RowsCarryParentChat ==
    (pc = "built" /\ df["ok"]) =>
        /\ Len(df["rows"]) = Cardinality(Retained)
        /\ \A p \in Retained :
            LET r == df["rows"][RowOf(p)]
            IN  /\ r["chat_id"] = ChatAt(p)["id"]
                /\ r["chat_name"] = ChatAt(p)["name"]
                /\ r["chat_type"] = ChatAt(p)["type"]
                /\ r["id"] = MessageAt(p)["id"]
                /\ r["type"] = MessageAt(p)["type"]

\* Two chats of different types, each with two rows in the table.
C3_Witness ==
    /\ pc = "built"
    /\ df["ok"]
    /\ Len(chats_list) = 2
    /\ Len(df["rows"]) = 4
    /\ df["rows"][1]["chat_id"] = 20
    /\ df["rows"][2]["chat_name"] = "Family"
    /\ df["rows"][3]["chat_id"] = 10
    /\ df["rows"][3]["id"] = 2
    /\ df["rows"][3]["type"] = "message"
    /\ df["rows"][4]["id"] = 4
    /\ df["rows"][4]["chat_type"] = "personal_chat"

\* The rows of the table that come from message m of chat c.
RowsFrom(c, m) ==
    {k \in 1..Len(df["rows"]) :
        df["rows"][k]["chat_id"] = c["id"] /\ df["rows"][k]["id"] = m["id"]}

\* C6: in a table gen_messages_dataframe returns, every row is of kind "message"
\* and of a chat of an accepted type; an input message that is both has exactly
\* one row, a service record or a message of another chat has none.
C6_RowsAreAcceptedMessages ==
    (pc = "built" /\ df["ok"]) =>
        /\ \A k \in 1..Len(df["rows"]) :
            /\ df["rows"][k]["type"] = "message"
            /\ df["rows"][k]["chat_type"] \in chat_types
        /\ \A p \in InputMessages :
            Cardinality(RowsFrom(ChatAt(p), MessageAt(p))) = IF p \in Retained THEN 1 ELSE 0

\* A service record between two messages of an accepted chat, and a chat that is
\* not accepted: the two messages are the rows.
C6_Witness ==
    /\ pc = "built"
    /\ df["ok"]
    /\ Len(chats_list) = 2
    /\ chats_list[1]["type"] = "personal_chat"
    /\ Len(chats_list[1]["messages"]) = 3
    /\ chats_list[1]["messages"][2]["type"] = "service"
    /\ chats_list[2]["type"] = "private_group"
    /\ Len(chats_list[2]["messages"]) = 1
    /\ chat_types = {"personal_chat"}
    /\ Len(df["rows"]) = 2

\* Sender tokens and the identifiers they stand for: "user2", "user12345",
\* "12345" and "7user3".
SenderTable ==
    { <<<<"u", "s", "e", "r", "2">>, 2>>,
      <<<<"u", "s", "e", "r", "1", "2", "3", "4", "5">>, 12345>>,
      <<<<"1", "2", "3", "4", "5">>, 12345>>,
      <<<<"7", "u", "s", "e", "r", "3">>, 73>> }

HasUserPrefix(token) == Len(token) >= 4 /\ SubSeq(token, 1, 4) = <<"u", "s", "e", "r">>

SenderMissing(p) == "from_id" \notin DOMAIN MessageAt(p)

\* A retained message with no sender token, or with one that stands for no
\* identifier.
SenderUnparsable(p) ==
    SenderMissing(p) \/ \A e \in SenderTable : e[1] # MessageAt(p)["from_id"]

DurationUncoercible(p) ==
    /\ "duration_seconds" \in DOMAIN MessageAt(p)
    /\ "str" \in DOMAIN MessageAt(p)["duration_seconds"]

C9_Original ==
    (pc = "built" /\ \E p \in Retained : DurationUncoercible(p)) =>
        (df["ok"] /\ Len(df["rows"]) = Cardinality({p \in Retained : ~DurationUncoercible(p)}))

\* C9, amended: a retained row whose duration cannot be coerced makes the whole
\* call raise: no table is returned, and no row is left out or counted.
C9_CoercionFailureAborts ==
    (pc = "built" /\ \E p \in Retained : DurationUncoercible(p)) =>
        (~df["ok"] /\ df["error"] \in {"TypeError", "ValueError", "AttributeError"})

\* A retained row with the duration "x" beside a retained row that is in
\* order: the call raises on the coercion.
C9_Witness ==
    /\ pc = "built"
    /\ ~df["ok"]
    /\ df["error"] = "TypeError"
    /\ \E p \in Retained : DurationUncoercible(p)
    /\ \E p \in Retained : ~DurationUncoercible(p) /\ ~SenderUnparsable(p)

(***************************************************************************)
(* Properties of the aggregator.                                           *)
(***************************************************************************)
\* Whether the date falls in the period.
FallsIn(date, p) ==
    /\ p["y"] = date["y"]
    /\ p["freq"] = "M" => p["m"] = date["m"]
    /\ p["freq"] = "Q" => (3 * p["q"] - 2 <= date["m"] /\ date["m"] <= 3 * p["q"])

Forwarded(i) == "forwarded_from" \in DOMAIN msg_df[i]

\* The rows of the table among I whose date falls in p.
RowsIn(I, p) == {i \in I : FallsIn(msg_df[i]["date"], p)}

RECURSIVE TextLength(_)
\* The lengths of the texts of the rows I, added up.
TextLength(I) ==
    IF I = {} THEN 0
    ELSE LET i == CHOOSE x \in I : TRUE
         IN  Len(msg_df[i]["text"]) + TextLength(I \ {i})

RECURSIVE TotalMessages(_, _)
\* The message counts of the buckets P of table t, added up.
TotalMessages(t, P) ==
    IF P = {} THEN 0
    ELSE LET p == CHOOSE x \in P : TRUE
         IN  t[p]["msg"] + TotalMessages(t, P \ {p})

\* The rows gen_stats_dataframe aggregates: all of them, or with
\* exclude_forwarded those that carry no forwarded-from marker.
Aggregated ==
    {i \in 1..Len(msg_df) : args["exclude_forwarded"] => ~Forwarded(i)}

\* C2: a bucket's message count is the number of aggregated rows whose date
\* falls in the bucket's period, and its character total is the sum of the
\* lengths of the texts of exactly those rows; every aggregated row is in a
\* bucket, and no bucket is empty.
C2_BucketTotals ==
    pc = "stats" =>
        /\ \A p \in DOMAIN stat_df :
            /\ p["freq"] = args["freq"]
            /\ stat_df[p]["msg"] = Cardinality(RowsIn(Aggregated, p))
            /\ stat_df[p]["chr"] = TextLength(RowsIn(Aggregated, p))
            /\ stat_df[p]["msg"] > 0
        /\ \A i \in Aggregated : \E p \in DOMAIN stat_df : FallsIn(msg_df[i]["date"], p)

\* Three rows of two different days of January 2021, with texts of lengths 2, 0
\* and 2, in one monthly bucket.
C2_Witness ==
    /\ pc = "stats"
    /\ args = [exclude_forwarded |-> FALSE, freq |-> "M"]
    /\ Len(msg_df) = 3
    /\ msg_df[1]["date"] = [y |-> 2021, m |-> 1, d |-> 5]
    /\ msg_df[2]["date"] = [y |-> 2021, m |-> 1, d |-> 20]
    /\ msg_df[3]["date"] = [y |-> 2021, m |-> 1, d |-> 20]
    /\ msg_df[1]["text"] = "ab" /\ msg_df[2]["text"] = "" /\ msg_df[3]["text"] = "ab"
    /\ DOMAIN stat_df = {[freq |-> "M", y |-> 2021, m |-> 1]}
    /\ stat_df[[freq |-> "M", y |-> 2021, m |-> 1]]["msg"] = 3
    /\ stat_df[[freq |-> "M", y |-> 2021, m |-> 1]]["chr"] = 4

\* C10: the message counts of all buckets add up to the number of rows without
\* exclude_forwarded and to the number of rows that carry no forwarded-from
\* marker with it: strictly less when a row carries the marker, equal when
\* none does.
C10_ExcludeForwarded ==
    pc = "stats" =>
        LET total == TotalMessages(stat_df, DOMAIN stat_df)
            marked == {i \in 1..Len(msg_df) : Forwarded(i)}
        IN  /\ ~args["exclude_forwarded"] => total = Len(msg_df)
            /\ args["exclude_forwarded"] => total = Len(msg_df) - Cardinality(marked)
            /\ (args["exclude_forwarded"] /\ marked # {}) => total < Len(msg_df)
            /\ (args["exclude_forwarded"] /\ marked = {}) => total = Len(msg_df)

\* A table of three rows, one of them forwarded, aggregated with
\* exclude_forwarded: two messages are counted.
C10_Witness ==
    /\ pc = "stats"
    /\ args["exclude_forwarded"]
    /\ Len(msg_df) = 3
    /\ Cardinality({i \in 1..Len(msg_df) : Forwarded(i)}) = 1
    /\ TotalMessages(stat_df, DOMAIN stat_df) = 2

\* The rows the owner sent and did not forward, and the rows of other senders.
SentSide == {i \in 1..Len(msg_df) : msg_df[i]["from_id"] = args["my_id"] /\ ~Forwarded(i)}
ReceivedSide == {i \in 1..Len(msg_df) : msg_df[i]["from_id"] # args["my_id"]}

\* The months in which a row of I falls.
MonthsOf(I) ==
    {[freq |-> "M", y |-> msg_df[i]["date"]["y"], m |-> msg_df[i]["date"]["m"]] : i \in I}

January == [freq |-> "M", y |-> 2021, m |-> 1]

\* The scenario of the spec: owner 1, three messages of one month, two from
\* sender 1, one of them forwarded, and one from sender 2.
Scenario ==
    /\ args["my_id"] = 1
    /\ Len(msg_df) = 3
    /\ \A i \in 1..3 : FallsIn(msg_df[i]["date"], January)
    /\ Cardinality({i \in 1..3 : msg_df[i]["from_id"] = 1}) = 2
    /\ Cardinality({i \in 1..3 : msg_df[i]["from_id"] = 1 /\ Forwarded(i)}) = 1
    /\ Cardinality({i \in 1..3 : msg_df[i]["from_id"] = 2}) = 1

\* C1: the sent side aggregates exactly the rows whose sender is the owner and
\* that carry no forwarded-from marker, the received side exactly the rows of
\* any other sender, forwarded or not, and the merged table carries both; in
\* the scenario the bucket has sent count 1 and received count 1.
C1_SentReceivedSides ==
    pc = "merged" =>
        /\ DOMAIN sent_df = MonthsOf(SentSide)
        /\ \A p \in DOMAIN sent_df :
            /\ sent_df[p]["msg"] = Cardinality(RowsIn(SentSide, p))
            /\ sent_df[p]["chr"] = TextLength(RowsIn(SentSide, p))
        /\ DOMAIN received_df = MonthsOf(ReceivedSide)
        /\ \A p \in DOMAIN received_df :
            /\ received_df[p]["msg"] = Cardinality(RowsIn(ReceivedSide, p))
            /\ received_df[p]["chr"] = TextLength(RowsIn(ReceivedSide, p))
        /\ \A p \in DOMAIN merged_df :
            /\ merged_df[p]["msg_sent"] = Cardinality(RowsIn(SentSide, p))
            /\ merged_df[p]["chr_sent"] = TextLength(RowsIn(SentSide, p))
            /\ merged_df[p]["msg_received"] = Cardinality(RowsIn(ReceivedSide, p))
            /\ merged_df[p]["chr_received"] = TextLength(RowsIn(ReceivedSide, p))
        /\ Scenario =>
            /\ DOMAIN merged_df = {January}
            /\ merged_df[January]["msg_sent"] = 1
            /\ merged_df[January]["msg_received"] = 1

\* The scenario, merged.
C1_Witness ==
    /\ pc = "merged"
    /\ Scenario
    /\ Forwarded(2)
    /\ Forwarded(3)
    /\ msg_df[3]["from_id"] = 2
    /\ merged_df[January]["msg_sent"] = 1
    /\ merged_df[January]["msg_received"] = 1

\* C8, as claimed: a period with rows on one side only is a bucket of the merged
\* table all the same.
C8_Original ==
    pc = "merged" =>
        \A p \in (DOMAIN sent_df) \cup (DOMAIN received_df) : p \in DOMAIN merged_df

\* C8, amended: the merged table has a bucket for exactly the periods that have
\* rows on both sides; a period with rows on one side only has no bucket at
\* all, and no bucket carries a side filled with zeros.
C8_MergeKeepsCommonPeriods ==
    pc = "merged" =>
        /\ DOMAIN merged_df = MonthsOf(SentSide) \cap MonthsOf(ReceivedSide)
        /\ \A p \in DOMAIN merged_df :
            /\ merged_df[p]["msg_sent"] = sent_df[p]["msg"]
            /\ merged_df[p]["msg_received"] = received_df[p]["msg"]
            /\ merged_df[p]["msg_sent"] > 0
            /\ merged_df[p]["msg_received"] > 0

\* January has rows on both sides and February on the sent side only: January is
\* the one bucket of the merged table.
C8_Witness ==
    /\ pc = "merged"
    /\ DOMAIN sent_df = {January, [freq |-> "M", y |-> 2021, m |-> 2]}
    /\ DOMAIN received_df = {January}
    /\ DOMAIN merged_df = {January}

====
